---- MODULE Spec2Model ----
(***************************************************************************)
(* Model of azure_sql_exporter.go: the Exporter (a prometheus.Collector),  *)
(* its Collect method, and the scrapeDatabase goroutines it launches.      *)
(*                                                                         *)
(* Every Collect call and every scrapeDatabase goroutine is a task with    *)
(* its own program counter.  One step of a task is one statement of the    *)
(* source that touches shared state (the mutex, one gauge family, the      *)
(* metric channel), so that all interleavings the Go scheduler can         *)
(* produce are explored.                                                   *)
(*                                                                         *)
(* GaugeVec.Collect(ch) is modelled as sending, at the call, one sample    *)
(* (family, labels, value) for every series the family then holds.         *)
(***************************************************************************)
EXTENDS Integers, Sequences, FiniteSets, TLC

\* Number of Collect calls (inbound scrape requests) explored.
MaxCollects == 2

\* config.Databases, as passed to NewExporter: the configured targets.
dbs ==
  << [Name |-> "Sales", Server |-> "a", User |-> "u1", Password |-> "p1", Port |-> 1433],
     [Name |-> "Inventory", Server |-> "b", User |-> "u2", Password |-> "p2", Port |-> 1433] >>

Collects == 1..MaxCollects
DbIdx == 1..Len(dbs)

\* One scrapeDatabase goroutine per (Collect call, index into e.dbs).
Scrapes == Collects \X DbIdx

\* The database argument d of scrape task s.
DbOf(s) == dbs[s[2]]

\* The label values (d.Server, d.Name) used by every WithLabelValues call.
LabelsOf(d) == <<d.Server, d.Name>>

\* The GaugeVec fields of Exporter.
GaugeVecs ==
  {"cpuPercent", "dataIO", "logIO", "memoryPercent", "workPercent", "sessionPercent", "dbUp"}

\* The six value gauges (every GaugeVec but dbUp).
ValueVecs == GaugeVecs \ {"dbUp"}

\* The metric name NewExporter gives each field.
MetricName ==
  [cpuPercent |-> "cpu_percent", dataIO |-> "data_io", logIO |-> "log_io",
   memoryPercent |-> "memory_percent", workPercent |-> "worker_percent",
   sessionPercent |-> "session_percent", dbUp |-> "db_up", up |-> "up"]

\* The columns of the statistics query, in SELECT order.
QueryColumns ==
  << "avg_cpu_percent", "avg_data_io_percent", "avg_log_write_percent",
     "avg_memory_usage_percent", "max_session_percent", "max_worker_percent" >>

\* Rows sys.dm_db_resource_stats may hold when a query runs (floats as integers).
Rows ==
  { [avg_cpu_percent |-> 11, avg_data_io_percent |-> 12, avg_log_write_percent |-> 13,
     avg_memory_usage_percent |-> 14, max_session_percent |-> 15, max_worker_percent |-> 16],
    [avg_cpu_percent |-> 21, avg_data_io_percent |-> 22, avg_log_write_percent |-> 23,
     avg_memory_usage_percent |-> 24, max_session_percent |-> 25, max_worker_percent |-> 26] }

\* conn.QueryRow(query): the selected columns of the row, in SELECT order.
QueryRow(r) == [i \in 1..Len(QueryColumns) |-> r[QueryColumns[i]]]

\* The locals of scrapeDatabase before the Scan.
NoLocals == [cpu |-> 0, data |-> 0, logio |-> 0, memory |-> 0, session |-> 0, worker |-> 0]

\* Faulty variant of Scan: the last two destinations in the order of the Set calls
\* (worker before session), against the SELECT order.
ScanWorkerFirst(cols) ==
  [cpu |-> cols[1], data |-> cols[2], logio |-> cols[3],
   memory |-> cols[4], session |-> cols[6], worker |-> cols[5]]

\* .Scan(&cpu, &data, &logio, &memory, &session, &worker): positional.
Scan(cols) ==
  [cpu |-> cols[1], data |-> cols[2], logio |-> cols[3],
   memory |-> cols[4], session |-> cols[5], worker |-> cols[6]]

\* fmt's %d of an unsigned integer.
FormatUint(n) == ToString(n)

\* Database.DSN: the data source name, password included.
DSN(d) ==
  << "server=", d.Server, ";user id=", d.User, ";password=", d.Password,
     ";port=", FormatUint(d.Port), ";database=", d.Name >>

\* Faulty variant of String: the password is not hidden.
StringWithPassword(d) ==
  << "server=", d.Server, ";user id=", d.User, ";password=", d.Password,
     ";port=", FormatUint(d.Port), ";database=", d.Name >>

\* Database.String: the data source name with the password hidden.
String(d) ==
  << "server=", d.Server, ";user id=", d.User, ";password=", "******",
     ";port=", FormatUint(d.Port), ";database=", d.Name >>

\* log.Debugf("Scraping %s", db.String())
ScrapingLine(d) == <<"Scraping ">> \o String(d)

\* log.Errorf("Failed to access database %s: %s", d, err) and
\* log.Errorf("Failed to query database %s: %s", d, err): %s formats d with
\* Database.String; the text of err comes from database/sql and the driver.
FailureLine(r, d) ==
  IF r = "connect_failure"
  THEN <<"Failed to access database ">> \o String(d) \o <<": ", "open error">>
  ELSE <<"Failed to query database ">> \o String(d) \o <<": ", "scan error">>

\* A scrape task that holds no handle (conn is nil).
NoConn == [state |-> "nil", dsn |-> << >>]

\* sql.Open("mssql", d.DSN()) returning a handle.
OpenConn(d) == [state |-> "open", dsn |-> DSN(d)]

\* Faulty variant of DeferredClose: conn.Close() deferred only after the error check of
\* the query, so that a failed query returns without closing.
DeferredCloseAfterQuery(cn, r) ==
  IF cn.state = "open" /\ r = "success" THEN [cn EXCEPT !.state = "closed"] ELSE cn

\* The deferred conn.Close(), registered once sql.Open has returned a handle: it runs
\* when scrapeDatabase returns, after a failed query as after a success.
DeferredClose(cn, r) == IF cn.state = "open" THEN [cn EXCEPT !.state = "closed"] ELSE cn

VARIABLES
  gauges,   \* gauges[f]: the series of GaugeVec f, a map from label values to value
  up,       \* the value of the Gauge e.up
  mutex,    \* e.mutex: TRUE when locked
  cpc,      \* cpc[c]: the position of Collect call c
  ck,       \* ck[c]: how many of the seven GaugeVec.Collect calls c has made
  ch,       \* ch[c]: the samples Collect call c has sent on its channel
  spc,      \* spc[s]: the position of scrape task s
  sk,       \* sk[s]: how many of the seven Set calls of the success path s has made
  res,      \* res[s]: the outcome of s ("none", "connect_failure", "query_failure", "success")
  loc,      \* loc[s]: the locals cpu, data, logio, memory, session, worker of s
  conn,     \* conn[s]: the handle conn of s: its state and the data source name it was opened with
  logs,     \* the log lines written so far, each a sequence of text pieces
  descs     \* the descriptors Describe has sent to the registry

vars == <<gauges, up, mutex, cpc, ck, ch, spc, sk, res, loc, conn, logs, descs>>

\* NewExporter: empty gauge families, up = 0, unlocked mutex; no task started.
Init ==
  /\ gauges = [f \in GaugeVecs |-> << >>]
  /\ up = 0
  /\ mutex = FALSE
  /\ cpc = [c \in Collects |-> "idle"]
  /\ ck = [c \in Collects |-> 0]
  /\ ch = [c \in Collects |-> {}]
  /\ spc = [s \in Scrapes |-> "idle"]
  /\ sk = [s \in Scrapes |-> 0]
  /\ res = [s \in Scrapes |-> "none"]
  /\ loc = [s \in Scrapes |-> NoLocals]
  /\ conn = [s \in Scrapes |-> NoConn]
  /\ logs = {}
  /\ descs = {}

\* vec.WithLabelValues(l).Set(v): create the series if absent, overwrite its value.
SetSeries(m, l, v) == [x \in (DOMAIN m) \cup {l} |-> IF x = l THEN v ELSE m[x]]

\* e.<f>.WithLabelValues(l...).Set(v)
WithLabelValuesSet(g, f, l, v) == [g EXCEPT ![f] = SetSeries(g[f], l, v)]

\* vec.Collect(ch): one sample per series of the family.
VecCollect(g, f) == {[name |-> MetricName[f], labels |-> l, value |-> g[f][l]] : l \in DOMAIN g[f]}

\* Faulty variant of CanLock: a Lock that returns although the mutex is held.
CanLockAlways(m) == TRUE

\* e.mutex.Lock() can return only when the mutex is not held.
CanLock(m) == m = FALSE

\* The order in which Collect calls Collect on the gauge families.
CollectOrder ==
  <<"cpuPercent", "dataIO", "logIO", "memoryPercent", "workPercent", "sessionPercent", "dbUp">>

\* Faulty variant of SetCalls: a failure branch that also resets the six value gauges.
SetCallsResetting(r, l) ==
  IF r = "success"
  THEN << <<"cpuPercent", l.cpu>>, <<"dataIO", l.data>>, <<"logIO", l.logio>>,
          <<"memoryPercent", l.memory>>, <<"workPercent", l.worker>>,
          <<"sessionPercent", l.session>>, <<"dbUp", 1>> >>
  ELSE << <<"cpuPercent", 0>>, <<"dataIO", 0>>, <<"logIO", 0>>, <<"memoryPercent", 0>>,
          <<"workPercent", 0>>, <<"sessionPercent", 0>>, <<"dbUp", 0>> >>

\* Faulty variant of SetCalls: a success branch without the Set of workPercent.
SetCallsWithoutWorker(r, l) ==
  IF r = "success"
  THEN << <<"cpuPercent", l.cpu>>, <<"dataIO", l.data>>, <<"logIO", l.logio>>,
          <<"memoryPercent", l.memory>>, <<"sessionPercent", l.session>>, <<"dbUp", 1>> >>
  ELSE << <<"dbUp", 0>> >>

\* The Set calls scrapeDatabase makes inside its critical section, in order, as
\* <<field, value>>: dbUp = 0 alone on either failure, the six values then dbUp = 1
\* on success.
SetCalls(r, l) ==
  IF r = "success"
  THEN << <<"cpuPercent", l.cpu>>, <<"dataIO", l.data>>, <<"logIO", l.logio>>,
          <<"memoryPercent", l.memory>>, <<"workPercent", l.worker>>,
          <<"sessionPercent", l.session>>, <<"dbUp", 1>> >>
  ELSE << <<"dbUp", 0>> >>

(***************************************************************************)
(* Exporter.Describe                                                       *)
(***************************************************************************)

\* The names of the eight gauge families Describe advertises.
FamilyNames == {MetricName[f] : f \in DOMAIN MetricName}

\* prometheus.MustRegister(exporter) in main, before the server starts: the registry
\* calls e.Describe(ch), which sends the descriptor of each of the eight families.
Describe ==
  /\ descs = {}
  /\ descs' = FamilyNames
  /\ UNCHANGED <<gauges, up, mutex, cpc, ck, ch, spc, sk, res, loc, conn, logs>>

(***************************************************************************)
(* Exporter.Collect                                                        *)
(***************************************************************************)

\* Faulty variant of CollectCall: the range loop misses the first element of e.dbs.
CollectCallSkippingFirst(c) ==
  /\ cpc[c] = "idle"
  /\ IF c = 1 THEN TRUE ELSE cpc[c - 1] # "idle"
  /\ descs # {}
  /\ spc' = [s \in Scrapes |-> IF s[1] = c /\ s[2] > 1 THEN "open" ELSE spc[s]]
  /\ logs' = logs \cup {ScrapingLine(dbs[i]) : i \in DbIdx}
  /\ cpc' = [cpc EXCEPT ![c] = "lock"]
  /\ UNCHANGED <<gauges, up, mutex, ck, ch, sk, res, loc, conn, descs>>

\* An inbound scrape request: the registry calls e.Collect(ch) of the registered
\* exporter, and the range loop over e.dbs logs and starts one scrapeDatabase
\* goroutine per target.  The loop shares no state with any other task, so it is
\* one step.  Calls are numbered in the order they begin.
CollectCall(c) ==
  /\ cpc[c] = "idle"
  /\ IF c = 1 THEN TRUE ELSE cpc[c - 1] # "idle"
  /\ descs # {}
  /\ spc' = [s \in Scrapes |-> IF s[1] = c THEN "open" ELSE spc[s]]
  /\ logs' = logs \cup {ScrapingLine(dbs[i]) : i \in DbIdx}
  /\ cpc' = [cpc EXCEPT ![c] = "lock"]
  /\ UNCHANGED <<gauges, up, mutex, ck, ch, sk, res, loc, conn, descs>>

\* e.mutex.Lock()
CollectLock(c) ==
  /\ cpc[c] = "lock"
  /\ CanLock(mutex)
  /\ mutex' = TRUE
  /\ cpc' = [cpc EXCEPT ![c] = "collect"]
  /\ UNCHANGED <<gauges, up, ck, ch, spc, sk, res, loc, conn, logs, descs>>

\* The next of e.cpuPercent.Collect(ch) ... e.dbUp.Collect(ch).
CollectVec(c) ==
  /\ cpc[c] = "collect"
  /\ ch' = [ch EXCEPT ![c] = ch[c] \cup VecCollect(gauges, CollectOrder[ck[c] + 1])]
  /\ ck' = [ck EXCEPT ![c] = ck[c] + 1]
  /\ cpc' = [cpc EXCEPT ![c] = IF ck[c] + 1 = Len(CollectOrder) THEN "set_up" ELSE "collect"]
  /\ UNCHANGED <<gauges, up, mutex, spc, sk, res, loc, conn, logs, descs>>

\* Faulty variant of CollectSetUp: up reports whether every series of db_up is 1.
CollectSetUpIfAllUp(c) ==
  /\ cpc[c] = "set_up"
  /\ up' = IF \A l \in DOMAIN gauges["dbUp"] : gauges["dbUp"][l] = 1 THEN 1 ELSE 0
  /\ cpc' = [cpc EXCEPT ![c] = "unlock"]
  /\ UNCHANGED <<gauges, mutex, ck, ch, spc, sk, res, loc, conn, logs, descs>>

\* e.up.Set(1)
CollectSetUp(c) ==
  /\ cpc[c] = "set_up"
  /\ up' = 1
  /\ cpc' = [cpc EXCEPT ![c] = "unlock"]
  /\ UNCHANGED <<gauges, mutex, ck, ch, spc, sk, res, loc, conn, logs, descs>>

\* The deferred e.mutex.Unlock(), and the return: the caller has received every
\* sample sent on ch and renders the response from them.
CollectUnlock(c) ==
  /\ cpc[c] = "unlock"
  /\ mutex' = FALSE
  /\ cpc' = [cpc EXCEPT ![c] = "done"]
  /\ ch' = [ch EXCEPT ![c] = {}]
  /\ UNCHANGED <<gauges, up, ck, spc, sk, res, loc, conn, logs, descs>>

(***************************************************************************)
(* Exporter.scrapeDatabase                                                 *)
(***************************************************************************)

\* Faulty variant of ScrapeOpen: the mutex is taken before the connection is opened, and is
\* held while the task connects and queries.
ScrapeOpenHoldingLock(s) ==
  /\ spc[s] = "open"
  /\ CanLock(mutex)
  /\ mutex' = TRUE
  /\ \E err \in BOOLEAN :
       IF err
       THEN /\ res' = [res EXCEPT ![s] = "connect_failure"]
            /\ spc' = [spc EXCEPT ![s] = "set"]
       ELSE /\ res' = res
            /\ spc' = [spc EXCEPT ![s] = "query"]
  /\ UNCHANGED <<gauges, up, cpc, ck, ch, sk, loc, conn, logs, descs>>

\* conn, err := sql.Open("mssql", d.DSN()): it fails or it returns a handle.
ScrapeOpen(s) ==
  /\ spc[s] = "open"
  /\ \E err \in BOOLEAN :
       IF err
       THEN /\ res' = [res EXCEPT ![s] = "connect_failure"]
            /\ spc' = [spc EXCEPT ![s] = "lock"]
            /\ conn' = conn
       ELSE /\ res' = res
            /\ spc' = [spc EXCEPT ![s] = "query"]
            /\ conn' = [conn EXCEPT ![s] = OpenConn(DbOf(s))]
  /\ UNCHANGED <<gauges, up, mutex, cpc, ck, ch, sk, loc, logs, descs>>

\* err = conn.QueryRow(query).Scan(...): it fails, or it scans the one row.
ScrapeQuery(s) ==
  /\ spc[s] = "query"
  /\ \/ /\ res' = [res EXCEPT ![s] = "query_failure"]
        /\ loc' = loc
     \/ \E r \in Rows :
          /\ res' = [res EXCEPT ![s] = "success"]
          /\ loc' = [loc EXCEPT ![s] = Scan(QueryRow(r))]
  /\ spc' = [spc EXCEPT ![s] = "lock"]
  /\ UNCHANGED <<gauges, up, mutex, cpc, ck, ch, sk, conn, logs, descs>>

\* e.mutex.Lock(), in whichever of the three branches the outcome selects, and in a
\* failure branch the log.Errorf that follows it.
ScrapeLock(s) ==
  /\ spc[s] = "lock"
  /\ CanLock(mutex)
  /\ mutex' = TRUE
  /\ logs' = IF res[s] = "success" THEN logs ELSE logs \cup {FailureLine(res[s], DbOf(s))}
  /\ spc' = [spc EXCEPT ![s] = "set"]
  /\ UNCHANGED <<gauges, up, cpc, ck, ch, sk, res, loc, conn, descs>>

\* Faulty variant of ScrapeSet: the label values are those of the first target.
ScrapeSetFirstLabels(s) ==
  /\ spc[s] = "set"
  /\ LET calls == SetCalls(res[s], loc[s])
         call == calls[sk[s] + 1]
     IN /\ gauges' = WithLabelValuesSet(gauges, call[1], LabelsOf(dbs[1]), call[2])
        /\ spc' = [spc EXCEPT ![s] = IF sk[s] + 1 = Len(calls) THEN "unlock" ELSE "set"]
  /\ sk' = [sk EXCEPT ![s] = sk[s] + 1]
  /\ UNCHANGED <<up, mutex, cpc, ck, ch, res, loc, conn, logs, descs>>

\* The next e.<field>.WithLabelValues(d.Server, d.Name).Set(v) of the branch.
ScrapeSet(s) ==
  /\ spc[s] = "set"
  /\ LET calls == SetCalls(res[s], loc[s])
         call == calls[sk[s] + 1]
     IN /\ gauges' = WithLabelValuesSet(gauges, call[1], LabelsOf(DbOf(s)), call[2])
        /\ spc' = [spc EXCEPT ![s] = IF sk[s] + 1 = Len(calls) THEN "unlock" ELSE "set"]
  /\ sk' = [sk EXCEPT ![s] = sk[s] + 1]
  /\ UNCHANGED <<up, mutex, cpc, ck, ch, res, loc, conn, logs, descs>>

\* The deferred calls, e.mutex.Unlock() then conn.Close(), and the end of the
\* goroutine (its locals die).
ScrapeUnlock(s) ==
  /\ spc[s] = "unlock"
  /\ mutex' = FALSE
  /\ conn' = [conn EXCEPT ![s] = DeferredClose(conn[s], res[s])]
  /\ spc' = [spc EXCEPT ![s] = "done"]
  /\ loc' = [loc EXCEPT ![s] = NoLocals]
  /\ UNCHANGED <<gauges, up, cpc, ck, ch, sk, res, logs, descs>>

Next ==
  \/ Describe
  \/ \E c \in Collects : CollectCall(c)
  \/ \E c \in Collects : CollectLock(c)
  \/ \E c \in Collects : CollectVec(c)
  \/ \E c \in Collects : CollectSetUp(c)
  \/ \E c \in Collects : CollectUnlock(c)
  \/ \E s \in Scrapes : ScrapeOpen(s)
  \/ \E s \in Scrapes : ScrapeQuery(s)
  \/ \E s \in Scrapes : ScrapeLock(s)
  \/ \E s \in Scrapes : ScrapeSet(s)
  \/ \E s \in Scrapes : ScrapeUnlock(s)

Spec == Init /\ [][Next]_vars

(***************************************************************************)
(* The exporter under fair scheduling, scraped by one client               *)
(***************************************************************************)

\* The row the statistics view holds when it does not change between queries.
SteadyRow == CHOOSE r \in Rows : \A r2 \in Rows : r.avg_cpu_percent <= r2.avg_cpu_percent

\* A scrape request of a client that sends its next request once the previous
\* response has arrived.
CollectCallInTurn(c) ==
  /\ IF c = 1 THEN TRUE ELSE cpc[c - 1] = "done"
  /\ CollectCall(c)

\* The query of a scrape while the statistics view holds SteadyRow.
ScrapeQuerySteadyRow(s) ==
  /\ ScrapeQuery(s)
  /\ res'[s] = "success" => loc'[s] = Scan(QueryRow(SteadyRow))

FairNext ==
  \/ Describe
  \/ \E c \in Collects : CollectCallInTurn(c)
  \/ \E c \in Collects : CollectLock(c)
  \/ \E c \in Collects : CollectVec(c)
  \/ \E c \in Collects : CollectSetUp(c)
  \/ \E c \in Collects : CollectUnlock(c)
  \/ \E s \in Scrapes : ScrapeOpen(s)
  \/ \E s \in Scrapes : ScrapeQuerySteadyRow(s)
  \/ \E s \in Scrapes : ScrapeLock(s)
  \/ \E s \in Scrapes : ScrapeSet(s)
  \/ \E s \in Scrapes : ScrapeUnlock(s)

\* A step of a task that holds e.mutex: none of them blocks.
CSStep ==
  \/ \E c \in Collects : CollectVec(c) \/ CollectSetUp(c) \/ CollectUnlock(c)
  \/ \E s \in Scrapes : ScrapeSet(s) \/ ScrapeUnlock(s)

\* What the Go scheduler and sync.RWMutex give a Collect call: the goroutine that
\* holds the mutex runs on, and a Collect call blocked in Lock gets the mutex when it
\* is released again and again (a waiting writer is not starved).  Nothing is
\* assumed of sql.Open and QueryRow, which wait for the network and need never
\* return, of the scrapes' Lock calls, or of the arrival of requests.
Fairness ==
  /\ WF_vars(CSStep)
  /\ \A c \in Collects : SF_vars(CollectLock(c))

FairSpec == Init /\ [][FairNext]_vars /\ Fairness

(***************************************************************************)
(* Vocabulary of the properties                                            *)
(***************************************************************************)

Failures == {"connect_failure", "query_failure"}

\* Collect call c has sent every sample of its snapshot and has not yet returned.
Emitted(c) == cpc[c] = "unlock"

\* The samples of family `name` with label values l in the snapshot of Collect call c.
Samples(c, name, l) == {m \in ch[c] : m.name = name /\ m.labels = l}

\* Task is inside a registry critical section.
CollectInCS(c) == cpc[c] \in {"collect", "set_up", "unlock"}
ScrapeInCS(s) == spc[s] \in {"set", "unlock"}

\* A scrape task that has been launched and has not ended.
InFlight(s) == spc[s] \notin {"idle", "done"}

\* The value (1 or 0) a finished scrape with outcome r wrote to db_up.
DbUpOf(r) == IF r = "success" THEN 1 ELSE 0

\* The six values of the snapshot of c for labels l are exactly the columns of row r.
SnapshotIsRow(c, l, r) ==
  /\ Samples(c, "cpu_percent", l) = {[name |-> "cpu_percent", labels |-> l, value |-> r.avg_cpu_percent]}
  /\ Samples(c, "data_io", l) = {[name |-> "data_io", labels |-> l, value |-> r.avg_data_io_percent]}
  /\ Samples(c, "log_io", l) = {[name |-> "log_io", labels |-> l, value |-> r.avg_log_write_percent]}
  /\ Samples(c, "memory_percent", l) =
       {[name |-> "memory_percent", labels |-> l, value |-> r.avg_memory_usage_percent]}
  /\ Samples(c, "worker_percent", l) =
       {[name |-> "worker_percent", labels |-> l, value |-> r.max_worker_percent]}
  /\ Samples(c, "session_percent", l) =
       {[name |-> "session_percent", labels |-> l, value |-> r.max_session_percent]}

\* The snapshot of c holds none of the six value series for labels l.
SnapshotHasNoValues(c, l) ==
  \A f \in ValueVecs : Samples(c, MetricName[f], l) = {}

(***************************************************************************)
(* C1                                                                      *)
(***************************************************************************)

\* C1: the snapshot of the first Collect call (the registry is empty when it begins)
\* holds, for every configured target, exactly one db_up sample, of value 0 or 1.
C1_OneDbUpPerTarget ==
  Emitted(1) =>
    \A i \in DbIdx :
      /\ Cardinality(Samples(1, "db_up", LabelsOf(dbs[i]))) = 1
      /\ \A m \in Samples(1, "db_up", LabelsOf(dbs[i])) : m.value \in {0, 1}

(***************************************************************************)
(* C2                                                                      *)
(***************************************************************************)

\* C2: in every emitted snapshot, for every target, the six value gauges are all
\* absent, or all present and equal to the six columns of one single row (the rows
\* differ in every column, so a mix of the values of two scrapes is no row).
C2_SnapshotNotMixed ==
  \A c \in Collects :
    Emitted(c) =>
      \A i \in DbIdx :
        \/ SnapshotHasNoValues(c, LabelsOf(dbs[i]))
        \/ \E r \in Rows : SnapshotIsRow(c, LabelsOf(dbs[i]), r)

\* A snapshot shows a target's six values from one row while a scrape of the same
\* target that has read another row is waiting for the lock.
C2_Witness ==
  \E c \in Collects, s \in Scrapes, r \in Rows :
    /\ Emitted(c)
    /\ SnapshotIsRow(c, LabelsOf(DbOf(s)), r)
    /\ spc[s] = "lock" /\ res[s] = "success"
    /\ loc[s].cpu # r.avg_cpu_percent

(***************************************************************************)
(* C3                                                                      *)
(***************************************************************************)

\* C3: at most one task (scrape or Collect call) is inside a registry critical
\* section.
C3_MutualExclusion ==
  Cardinality({s \in Scrapes : ScrapeInCS(s)}) + Cardinality({c \in Collects : CollectInCS(c)}) <= 1

\* A Collect call is reading the registry while a scrape and another Collect call
\* wait for the lock.
C3_Witness ==
  \E c, c2 \in Collects, s \in Scrapes :
    /\ cpc[c] = "collect" /\ ck[c] > 0
    /\ cpc[c2] = "lock"
    /\ spc[s] = "lock"

(***************************************************************************)
(* C4                                                                      *)
(***************************************************************************)

\* C4: a step of a scrape whose outcome is a failure (its position or its count of
\* Set calls changes) leaves every one of the six
\* value gauge families and up unchanged; its Set step sets the target's db_up
\* series to 0 and changes no other series, and its other steps change no series.
C4_FailureSetsOnlyDbUp ==
  [][\A s \in Scrapes :
       (res'[s] \in Failures /\ (spc'[s] # spc[s] \/ sk'[s] # sk[s])) =>
         /\ \A f \in ValueVecs : gauges'[f] = gauges[f]
         /\ up' = up
         /\ IF spc[s] = "set"
            THEN /\ DOMAIN gauges'["dbUp"] = DOMAIN gauges["dbUp"] \cup {LabelsOf(DbOf(s))}
                 /\ gauges'["dbUp"][LabelsOf(DbOf(s))] = 0
                 /\ \A l \in DOMAIN gauges["dbUp"] :
                      l # LabelsOf(DbOf(s)) => gauges'["dbUp"][l] = gauges["dbUp"][l]
            ELSE gauges'["dbUp"] = gauges["dbUp"]]_vars

\* A failed scrape has written inside its critical section: db_up is 0 and the six
\* gauges still hold the row an earlier scrape stored.
C4_Witness ==
  \E s \in Scrapes, r \in Rows :
    /\ spc[s] = "unlock" /\ res[s] \in Failures
    /\ LabelsOf(DbOf(s)) \in DOMAIN gauges["cpuPercent"]
    /\ gauges["cpuPercent"][LabelsOf(DbOf(s))] = r.avg_cpu_percent
    /\ gauges["sessionPercent"][LabelsOf(DbOf(s))] = r.max_session_percent
    /\ gauges["dbUp"][LabelsOf(DbOf(s))] = 0

(***************************************************************************)
(* C5                                                                      *)
(***************************************************************************)

\* The registry holds, for labels l, the columns of row r under the six gauges.
RegistryIsRow(l, r) ==
  /\ \A f \in GaugeVecs : l \in DOMAIN gauges[f]
  /\ gauges["cpuPercent"][l] = r.avg_cpu_percent
  /\ gauges["dataIO"][l] = r.avg_data_io_percent
  /\ gauges["logIO"][l] = r.avg_log_write_percent
  /\ gauges["memoryPercent"][l] = r.avg_memory_usage_percent
  /\ gauges["sessionPercent"][l] = r.max_session_percent
  /\ gauges["workPercent"][l] = r.max_worker_percent

\* C5: when a successful scrape has made its writes, the registry holds for its
\* labels the row it scanned, column by column (cpu_percent = avg_cpu, data_io =
\* avg_data_io, log_io = avg_log_write, memory_percent = avg_memory_usage,
\* session_percent = max_session, worker_percent = max_worker), and db_up = 1.
C5_SuccessWritesRow ==
  \A s \in Scrapes :
    (spc[s] = "unlock" /\ res[s] = "success") =>
      /\ \E r \in Rows : r.avg_cpu_percent = loc[s].cpu /\ RegistryIsRow(LabelsOf(DbOf(s)), r)
      /\ gauges["dbUp"][LabelsOf(DbOf(s))] = 1

\* A successful scrape has overwritten the other row, stored by an earlier scrape
\* that is over.
C5_Witness ==
  \E s, s2 \in Scrapes :
    /\ spc[s] = "unlock" /\ res[s] = "success" /\ loc[s].cpu = 21
    /\ s2[2] = s[2] /\ spc[s2] = "done" /\ res[s2] = "success"
    /\ gauges["workPercent"][LabelsOf(DbOf(s))] = 26
    /\ gauges["dbUp"][LabelsOf(DbOf(s))] = 1

(***************************************************************************)
(* C6                                                                      *)
(***************************************************************************)

\* Some task inside a registry critical section can take its next step.
HolderCanStep ==
  \/ \E s \in Scrapes : ScrapeInCS(s) /\ (ENABLED ScrapeSet(s) \/ ENABLED ScrapeUnlock(s))
  \/ \E c \in Collects :
       CollectInCS(c) /\ (ENABLED CollectVec(c) \/ ENABLED CollectSetUp(c) \/ ENABLED CollectUnlock(c))

\* C6: no deadlock, and no dependence on a scrape that is connecting or querying:
\* whenever a scrape has its outcome and waits for the lock, either it can take the
\* lock at once, or the lock is with a task inside its critical section whose next
\* step (a Set, a family Collect, the Unlock) is enabled with no step of any other
\* task; and a scrape that has the lock can always make its next Set or its Unlock.
\* Hence the lock is never with a task that is in sql.Open or in QueryRow.
C6_NeverBlockedByIO ==
  \A s \in Scrapes :
    /\ spc[s] = "lock" => (ENABLED ScrapeLock(s) \/ HolderCanStep)
    /\ spc[s] = "set" => ENABLED ScrapeSet(s)
    /\ spc[s] = "unlock" => ENABLED ScrapeUnlock(s)

\* A scrape of a later cycle has ended while the scrape of another target, launched
\* by the first cycle, has still not returned from sql.Open or QueryRow.
C6_Witness ==
  \E s, s2 \in Scrapes :
    /\ s[1] > s2[1] /\ s[2] # s2[2]
    /\ spc[s] = "done"
    /\ spc[s2] \in {"open", "query"}

(***************************************************************************)
(* C7                                                                      *)
(***************************************************************************)

\* C7: if a scrape launched by a Collect call has ended before that call reads the
\* registry (it is over while the call holds the lock), the snapshot of the call
\* shows for its target the db_up value that scrape wrote.
C7_SnapshotShowsOwnCycle ==
  \A c \in Collects, i \in DbIdx :
    (Emitted(c) /\ spc[<<c, i>>] = "done") =>
      \E m \in Samples(c, "db_up", LabelsOf(dbs[i])) : m.value = DbUpOf(res[<<c, i>>])

(***************************************************************************)
(* C8                                                                      *)
(***************************************************************************)

\* The latest Collect call that has launched its scrapes (calls launch in the order
\* they are numbered), 0 when there is none.
LastLaunched ==
  IF \A c \in Collects : cpc[c] = "idle" THEN 0
  ELSE CHOOSE c \in Collects : cpc[c] # "idle" /\ \A c2 \in Collects : cpc[c2] # "idle" => c2 <= c

\* C8: whenever no scrape of a target is in flight and one has been launched, the
\* target's db_up is 1 if its most recently launched scrape succeeded, 0 if it failed.
C8_DbUpIsLatestLaunched ==
  \A i \in DbIdx :
    (LastLaunched # 0 /\ \A c \in Collects : ~InFlight(<<c, i>>)) =>
      /\ LabelsOf(dbs[i]) \in DOMAIN gauges["dbUp"]
      /\ gauges["dbUp"][LabelsOf(dbs[i])] = DbUpOf(res[<<LastLaunched, i>>])

(***************************************************************************)
(* C9                                                                      *)
(***************************************************************************)

C10_EveryFamilyEmitted ==
  \A c \in Collects :
    Emitted(c) =>
      /\ \A n \in FamilyNames : \E m \in ch[c] : m.name = n
      /\ Cardinality(Samples(c, "up", << >>)) = 1

(***************************************************************************)
(* C11                                                                     *)
(***************************************************************************)

C12_DbUpOnceACycleHasRun ==
  \A c, c0 \in Collects :
    (Emitted(c) /\ c0 # c /\ cpc[c0] = "done") =>
      \A i \in DbIdx : Samples(c, "db_up", LabelsOf(dbs[i])) # {}

(***************************************************************************)
(* C13                                                                     *)
(***************************************************************************)

\* C13: a scrape task that has ended holds no open handle (it never had one, after
\* a failed sql.Open, or it has closed the one it opened, after a failed query as
\* after a success); an open handle belongs to a task between sql.Open and its
\* return and was opened with that task's own data source name; hence no handle is
\* open once every scrape task has ended.
C13_ConnectionsClosed ==
  /\ \A s \in Scrapes :
       /\ spc[s] = "done" =>
            conn[s].state = (IF res[s] = "connect_failure" THEN "nil" ELSE "closed")
       /\ conn[s].state = "open" =>
            (spc[s] \in {"query", "lock", "set", "unlock"} /\ conn[s].dsn = DSN(DbOf(s)))
  /\ (\A s \in Scrapes : ~InFlight(s)) => {s \in Scrapes : conn[s].state = "open"} = {}

\* Every scrape task has ended; one closed its handle after a failed query, one
\* after a success, and one never had a handle.
C13_Witness ==
  /\ \A s \in Scrapes : spc[s] = "done"
  /\ \E s \in Scrapes : res[s] = "query_failure" /\ conn[s].state = "closed"
  /\ \E s \in Scrapes : res[s] = "success" /\ conn[s].state = "closed"
  /\ \E s \in Scrapes : res[s] = "connect_failure" /\ conn[s].state = "nil"

(***************************************************************************)
(* C14                                                                     *)
(***************************************************************************)

\* The configuration with every password replaced by another one.
OtherPasswords == [i \in DbIdx |-> [dbs[i] EXCEPT !.Password = "other"]]

\* The log lines and samples a run on configuration cfg can produce.
LinesOf(cfg) ==
  {ScrapingLine(cfg[i]) : i \in DbIdx}
    \cup {FailureLine(r, cfg[i]) : r \in Failures, i \in DbIdx}

\* C14: no piece of a log line and no label value of a sample is a password; every
\* log line written is a line the same run writes on the configuration that differs
\* only in the passwords, and every sample carries the labels of a target of that
\* configuration: logs and snapshots are the same in both runs.
C14_PasswordNotObservable ==
  /\ \A line \in logs :
       /\ \A k \in 1..Len(line), i \in DbIdx : line[k] # dbs[i].Password
       /\ line \in LinesOf(OtherPasswords)
  /\ \A c \in Collects : \A m \in ch[c] :
       /\ \A k \in 1..Len(m.labels), i \in DbIdx : m.labels[k] # dbs[i].Password
       /\ \E i \in DbIdx : m.labels = LabelsOf(OtherPasswords[i])

\* Both kinds of failure line and a Scraping line have been written, a snapshot
\* holds samples, and a handle is open on a data source name that holds the password.
C14_Witness ==
  /\ \E i \in DbIdx : ScrapingLine(dbs[i]) \in logs
  /\ \E i \in DbIdx : FailureLine("connect_failure", dbs[i]) \in logs
  /\ \E i \in DbIdx : FailureLine("query_failure", dbs[i]) \in logs
  /\ \E c \in Collects : Emitted(c) /\ ch[c] # {}
  /\ \E s \in Scrapes : \E k \in 1..Len(DSN(DbOf(s))) :
       conn[s].state = "open" /\ conn[s].dsn[k] = DbOf(s).Password

(***************************************************************************)
(* C15                                                                     *)
(***************************************************************************)

\* C15: the scrape tasks launched so far are Len(dbs) times the Collect calls made
\* so far, and a scrape task is launched only by the step that begins its own
\* Collect call (never by Describe, by a finished scrape or by any other step).
C15_ScrapesOnlyFromCollect ==
  /\ [](Cardinality({s \in Scrapes : spc[s] # "idle"})
          = Len(dbs) * Cardinality({c \in Collects : cpc[c] # "idle"}))
  /\ [][\A s \in Scrapes :
          (spc[s] = "idle" /\ spc'[s] # "idle") =>
            (cpc[s[1]] = "idle" /\ cpc'[s[1]] = "lock" /\ spc'[s] = "open")]_vars

\* Describe has run, two Collect calls have been made, one has returned, and a
\* scrape has ended.
C15_Witness ==
  /\ descs = FamilyNames
  /\ Cardinality({c \in Collects : cpc[c] # "idle"}) = 2
  /\ \E c \in Collects : cpc[c] = "done"
  /\ \E s \in Scrapes : spc[s] = "done"

(***************************************************************************)
(* C16                                                                     *)
(***************************************************************************)

\* Some scrape of target i has completed a successful write (it has ended).
SucceededOnce(i) == \E c \in Collects : spc[<<c, i>>] = "done" /\ res[<<c, i>>] = "success"

\* C16: a snapshot holds exactly the series the registry holds; it holds the six
\* value series of a target (all six, forming one row) if some scrape of that target
\* has completed a successful write before the read, and none of them otherwise;
\* and no step removes a series from any family, so that a series seen in one
\* snapshot is in every later one.
C16_SeriesIffSucceededAndKept ==
  /\ [](\A c \in Collects :
          Emitted(c) =>
            /\ \A f \in GaugeVecs :
                 {m.labels : m \in {x \in ch[c] : x.name = MetricName[f]}} = DOMAIN gauges[f]
            /\ \A i \in DbIdx :
                 IF SucceededOnce(i)
                 THEN \E r \in Rows : SnapshotIsRow(c, LabelsOf(dbs[i]), r)
                 ELSE SnapshotHasNoValues(c, LabelsOf(dbs[i])))
  /\ [][\A f \in GaugeVecs : DOMAIN gauges[f] \subseteq DOMAIN gauges'[f]]_vars

\* A snapshot holds the six series of one target, whose latest scrape failed after
\* an earlier one succeeded, and none of the other target, which has only failed.
C16_Witness ==
  \E c \in Collects, i, j \in DbIdx :
    /\ Emitted(c)
    /\ SucceededOnce(i)
    /\ \E m \in Samples(c, "db_up", LabelsOf(dbs[i])) : m.value = 0
    /\ Samples(c, "cpu_percent", LabelsOf(dbs[i])) # {}
    /\ ~SucceededOnce(j)
    /\ Samples(c, "db_up", LabelsOf(dbs[j])) # {}
    /\ SnapshotHasNoValues(c, LabelsOf(dbs[j]))

(***************************************************************************)
(* C17                                                                     *)
(***************************************************************************)

\* C17: when no scrape is inside its critical section, a target whose db_up is 1 has
\* all six value gauges, holding the six columns of one row; and in every snapshot a
\* target whose db_up sample is 1 has its six value samples, forming one row.
C17_UpImpliesValues ==
  /\ (\A s \in Scrapes : ~ScrapeInCS(s)) =>
       \A i \in DbIdx :
         (LabelsOf(dbs[i]) \in DOMAIN gauges["dbUp"] /\ gauges["dbUp"][LabelsOf(dbs[i])] = 1) =>
           \E r \in Rows : RegistryIsRow(LabelsOf(dbs[i]), r)
  /\ \A c \in Collects, i \in DbIdx :
       (Emitted(c) /\ \E m \in Samples(c, "db_up", LabelsOf(dbs[i])) : m.value = 1) =>
         \E r \in Rows : SnapshotIsRow(c, LabelsOf(dbs[i]), r)

\* No scrape is inside its critical section, a target is up with the second row, which
\* overwrote the first, and the other target is down.
C17_Witness ==
  /\ \A s \in Scrapes : ~ScrapeInCS(s)
  /\ \E i, j \in DbIdx :
       /\ LabelsOf(dbs[i]) \in DOMAIN gauges["dbUp"] /\ gauges["dbUp"][LabelsOf(dbs[i])] = 1
       /\ gauges["cpuPercent"][LabelsOf(dbs[i])] = 21
       /\ \A c \in Collects : res[<<c, i>>] = "success"
       /\ LabelsOf(dbs[j]) \in DOMAIN gauges["dbUp"] /\ gauges["dbUp"][LabelsOf(dbs[j])] = 0

(***************************************************************************)
(* C18                                                                     *)
(***************************************************************************)

\* C18: a step of scrape task s (its position, its count of Set calls or its handle
\* changes) keeps, in every family, every series whose labels are not
\* (d.Server, d.Name) with its value, adds no series under other labels, and leaves up
\* unchanged.
C18_ScrapeTouchesOwnLabels ==
  [][\A s \in Scrapes :
       ((spc'[s] # spc[s] /\ spc[s] # "idle") \/ sk'[s] # sk[s] \/ conn'[s] # conn[s]) =>
         /\ up' = up
         /\ \A f \in GaugeVecs :
              /\ DOMAIN gauges'[f] \subseteq DOMAIN gauges[f] \cup {<<dbs[s[2]].Server, dbs[s[2]].Name>>}
              /\ \A l \in DOMAIN gauges[f] :
                   l # <<dbs[s[2]].Server, dbs[s[2]].Name>> =>
                     (l \in DOMAIN gauges'[f] /\ gauges'[f][l] = gauges[f][l])]_vars

\* A scrape of the second target has made its seven Set calls while the first target
\* has its series, written by a scrape of that target.
C18_Witness ==
  \E s \in Scrapes :
    /\ s[2] = 2 /\ spc[s] = "unlock" /\ res[s] = "success"
    /\ LabelsOf(dbs[1]) \in DOMAIN gauges["cpuPercent"]
    /\ LabelsOf(dbs[1]) \in DOMAIN gauges["dbUp"]
    /\ LabelsOf(dbs[2]) \in DOMAIN gauges["dbUp"]

====
